---- MODULE Spec2Model ----
(***************************************************************************)
(* A model of the phrase-matching and highlight engine of the speech       *)
(* analyzer (src/classes/text_analyzer.py).                                *)
(*                                                                         *)
(* Strings are sequences of one-character strings.  Offsets are Python's: *)
(* 0-based, and a span <<s, e>> is half-open.                              *)
(***************************************************************************)
EXTENDS Integers, Sequences, FiniteSets, TLC

VARIABLES
    phrase,      \* is_phrase_in_text: the phrase argument
    text,        \* is_phrase_in_text: the text argument
    called,      \* whether is_phrase_in_text has returned (or raised)
    match,       \* what it returned, or the exception it raised
    render_text,        \* add_highlights_to_text: the text argument
    render_highlights,  \* add_highlights_to_text: the highlights argument
    render_done,        \* whether add_highlights_to_text has returned (or raised)
    rendered,           \* what it returned, or the exception it raised
    analysis_cache,             \* TextAnalyzer.analysis_cache, for the texts of the model
    other_entries,              \* the number of its entries for other texts
    stored_for,                 \* for each key of the cache, the text and the
                                \* dictionaries of the call that stored its entry
    preprocessed_dictionaries,  \* TextAnalyzer.preprocessed_dictionaries
    last_call,                  \* the last analyze_utterance call and what it gave
    pc,          \* where each worker is in analyze_utterance
    task,        \* the arguments of each worker's call
    computed,    \* the result each worker computed and has still to store
    outcome,     \* what each worker's last call gave
    client_segments,    \* analyze_conversation: the segments of the client's channel
    operator_segments,  \* analyze_conversation: the segments of the operator's channel
    conversation,       \* what analyze_conversation returned, once it has
    recognize_status,   \* the column recognize_status of each recording's row
    analysis_status,    \* the column analysis_status of each recording's row
    has_conversation,   \* whether the column conversation of the row is non-empty
    task_queue,         \* RecognizeThread: the tasks put by the watcher that no
                        \* thread of the executor has begun
    current_tasks,      \* RecognizeThread.current_tasks: its keys
    current_task_ids,   \* _fetch_new_tasks: the keys the watcher has read
    wpc,                \* where the watcher is in _fetch_new_tasks
    rpc,                \* where each executor thread is in _process_task
    rtask,              \* the id of the task of each executor thread
    db_record,          \* the recognize_status each executor thread has read
    proc_queue,         \* TaskProcessor.task_queue
    proc_call           \* the last TaskProcessor._process_task call: its
                        \* recording and the row before it

matchVars == <<phrase, text, called, match>>
renderVars == <<render_text, render_highlights, render_done, rendered>>
analyzerVars == <<analysis_cache, other_entries, stored_for, preprocessed_dictionaries, last_call>>

workerVars == <<pc, task, computed, outcome>>

convVars == <<client_segments, operator_segments, conversation>>

dbVars == <<recognize_status, analysis_status, has_conversation>>
recognizeVars == <<task_queue, current_tasks, current_task_ids, wpc, rpc, rtask, db_record>>
processorVars == <<proc_queue, proc_call>>

\* the variables of ConversationAnalyzer and of the threads
pipelineVars == <<convVars, dbVars, recognizeVars, processorVars>>

vars == <<matchVars, renderVars, analyzerVars, workerVars, pipelineVars>>

(***************************************************************************)
(* Bounds of the model.                                                    *)
(***************************************************************************)
MaxPhraseTokens == 3
MaxTextTokens == 2
\* add_highlights_to_text is applied to texts of at most MaxRenderLen
\* characters and to at most MaxHighlights highlights
MaxRenderLen == 3
MaxHighlights == 2
\* calls on texts outside the model are followed once the cache is within
\* Headroom entries of its limit
Headroom == 1
\* the threads that call the shared TextAnalyzer
NumWorkers == 2

(***************************************************************************)
(* Characters.  \w is a letter; " " is whitespace; "," is punctuation.     *)
(* "I" stands for the capital I with a dot above (U+0130), whose lower     *)
(* case is the two characters "i" and a combining dot above (U+0307),      *)
(* written "^" here, which is no word character and no whitespace.         *)
(***************************************************************************)
LowerLetters == {"a", "k", "s", "i"}
UpperLetters == {"S", "I"}
WordChars == LowerLetters \cup UpperLetters

IsWordChar(c) == c \in WordChars
IsSpace(c) == c = " "

\* the lower case of one character, as the IGNORECASE flag compares it
LowerChar(c) == IF c = "S" THEN "s" ELSE IF c = "I" THEN "i" ELSE c

\* str.lower() on one character: one character, or two for "I"
LowerFull(c) == IF c = "I" THEN <<"i", "^">> ELSE <<LowerChar(c)>>

\* s[i:j] of Python, for 0 <= i and any j
Slice(s, i, j) ==
    LET hi == IF j > Len(s) THEN Len(s) ELSE j
    IN  IF i >= hi THEN <<>> ELSE SubSeq(s, i + 1, hi)

Max(a, b) == IF a >= b THEN a ELSE b
Min(a, b) == IF a <= b THEN a ELSE b

RECURSIVE Concat(_)
\* ''.join(parts)
Concat(parts) ==
    IF parts = <<>> THEN <<>> ELSE Head(parts) \o Concat(Tail(parts))

\* str.lower()
lower(s) == Concat([i \in 1..Len(s) |-> LowerFull(s[i])])

RECURSIVE JoinSpace(_)
\* ' '.join(words)
JoinSpace(words) ==
    IF words = <<>> THEN <<>>
    ELSE IF Len(words) = 1 THEN Head(words)
    ELSE Head(words) \o <<" ">> \o JoinSpace(Tail(words))

(***************************************************************************)
(* Regular expressions of the source.                                      *)
(***************************************************************************)
\* the maximal runs of word characters of s, as the set of their spans
WordRuns(s) ==
    { sp \in (0..Len(s)) \X (0..Len(s)) :
        /\ sp[1] < sp[2]
        /\ \A i \in (sp[1] + 1)..sp[2] : IsWordChar(s[i])
        /\ (sp[1] = 0 \/ ~IsWordChar(s[sp[1]]))
        /\ (sp[2] = Len(s) \/ ~IsWordChar(s[sp[2] + 1])) }

\* a set of spans with distinct starts, as the list ordered by start
SpansInOrder(S) ==
    [k \in 1..Cardinality(S) |->
        CHOOSE sp \in S : Cardinality({o \in S : o[1] < sp[1]}) = k - 1]

\* list(re.compile(r'\b\w+\b').finditer(s)): the spans of the words of s
word_pattern(s) == SpansInOrder(WordRuns(s))

\* re.findall(r'\b\w+\b', s)
FindAllWords(s) ==
    LET ms == word_pattern(s)
    IN  [k \in 1..Len(ms) |-> Slice(s, ms[k][1], ms[k][2])]

\* len(s.split()): the number of maximal runs of non-whitespace characters
SplitCount(s) ==
    Cardinality({i \in 1..Len(s) :
        ~IsSpace(s[i]) /\ (i = 1 \/ IsSpace(s[i - 1]))})

\* the literal pat occurs in txt at offset pos, ignoring case
MatchAt(pat, txt, pos) ==
    /\ pos + Len(pat) <= Len(txt)
    /\ \A k \in 1..Len(pat) : LowerChar(txt[pos + k]) = LowerChar(pat[k])

RECURSIVE FindIterFrom(_, _, _)
FindIterFrom(pat, txt, pos) ==
    IF pos + Len(pat) > Len(txt) THEN <<>>
    ELSE IF MatchAt(pat, txt, pos)
         THEN <<<<pos, pos + Len(pat)>>>> \o
              FindIterFrom(pat, txt, IF Len(pat) = 0 THEN pos + 1 ELSE pos + Len(pat))
         ELSE FindIterFrom(pat, txt, pos + 1)

\* re.compile(re.escape(pat), re.IGNORECASE).finditer(txt): the spans of the
\* non-overlapping occurrences, left to right; the empty pattern matches the
\* empty string at every offset 0..len(txt)
FindIter(pat, txt) == FindIterFrom(pat, txt, 0)

\* \b at offset pos of txt
IsBoundary(txt, pos) ==
    LET before == pos >= 1 /\ IsWordChar(txt[pos])
        after == pos < Len(txt) /\ IsWordChar(txt[pos + 1])
    IN  before # after

RECURSIVE FindIterWordFrom(_, _, _)
FindIterWordFrom(pat, txt, pos) ==
    IF pos + Len(pat) > Len(txt) THEN <<>>
    ELSE IF /\ MatchAt(pat, txt, pos)
            /\ IsBoundary(txt, pos)
            /\ IsBoundary(txt, pos + Len(pat))
         THEN <<<<pos, pos + Len(pat)>>>> \o
              FindIterWordFrom(pat, txt, IF Len(pat) = 0 THEN pos + 1 ELSE pos + Len(pat))
         ELSE FindIterWordFrom(pat, txt, pos + 1)

\* re.finditer(r'\b' + re.escape(pat) + r'\b', txt, re.IGNORECASE)
FindIterWord(pat, txt) == FindIterWordFrom(pat, txt, 0)

(***************************************************************************)
(* EnhancedMorphAnalyzer.                                                  *)
(***************************************************************************)
\* parsed.normal_form of the morphology library, which the source takes as
\* given: here a word of two or more letters ending in "s" loses that "s"
normalize_word(word) ==
    IF Len(word) >= 2 /\ word[Len(word)] = "s"
    THEN SubSeq(word, 1, Len(word) - 1)
    ELSE word

\* normalize_phrase: the lemmas of the lower-cased words, joined by one space
normalize_phrase(p) ==
    LET words == FindAllWords(lower(p))
    IN  JoinSpace([k \in 1..Len(words) |-> normalize_word(words[k])])

\* the stop words of the source that the model's letters spell
\* (Cyrillic a, k, s and kak)
stop_words == { <<"a">>, <<"k">>, <<"s">>, <<"k", "a", "k">> }

\* a word has to be longer than this to be a keyword
MinKeywordLen == 2

\* get_phrase_keywords
get_phrase_keywords(p) ==
    LET words == FindAllWords(lower(p))
    IN  { normalize_word(words[k]) :
            k \in { i \in 1..Len(words) :
                      Len(words[i]) > MinKeywordLen /\ words[i] \notin stop_words } }

(***************************************************************************)
(* The fuzzy similarity the source takes from rapidfuzz.                   *)
(***************************************************************************)
RECURSIVE LcsRow(_, _, _, _)
\* one row of the longest-common-subsequence table: acc holds the cells
\* 0..Len(acc)-1 of the row of character c, prev the whole row before it
LcsRow(prev, c, b, acc) ==
    IF Len(acc) = Len(b) + 1 THEN acc
    ELSE LET j == Len(acc)
             cell == IF b[j] = c THEN prev[j] + 1
                     ELSE Max(prev[j + 1], acc[j])
         IN  LcsRow(prev, c, b, Append(acc, cell))

RECURSIVE LcsRows(_, _, _, _)
LcsRows(a, b, i, prev) ==
    IF i > Len(a) THEN prev
    ELSE LcsRows(a, b, i + 1, LcsRow(prev, a[i], b, <<0>>))

\* the length of a longest common subsequence of a and b
LcsLen(a, b) == LcsRows(a, b, 1, [j \in 1..(Len(b) + 1) |-> 0])[Len(b) + 1]

\* fuzz.ratio, in percent rounded down: the normalized Indel similarity
ratio(a, b) ==
    IF Len(a) + Len(b) = 0 THEN 100
    ELSE (200 * LcsLen(a, b)) \div (Len(a) + Len(b))

\* the windows of the longer string that partial_ratio aligns the shorter
\* string s1 with: prefixes shorter than s1, every substring as long as s1,
\* suffixes not longer than s1; a window is skipped when its last (a suffix:
\* its first) character does not occur in s1
PartialWindows(s1, s2) ==
    LET chars == { s1[i] : i \in 1..Len(s1) }
        len1 == Len(s1)
        len2 == Len(s2)
    IN  { Slice(s2, 0, i) : i \in { i \in 1..(len1 - 1) : s2[i] \in chars } }
        \cup { Slice(s2, i, i + len1) :
                 i \in { i \in 0..(len2 - len1 - 1) : s2[i + len1] \in chars } }
        \cup { Slice(s2, i, len2) :
                 i \in { i \in (len2 - len1)..(len2 - 1) : s2[i + 1] \in chars } }

\* the best ratio of s1 (the shorter string) with a window of s2
PartialRatioImpl(s1, s2) ==
    LET scores == { ratio(s1, w) : w \in PartialWindows(s1, s2) } \cup {0}
    IN  CHOOSE m \in scores : \A o \in scores : o <= m

\* fuzz.partial_ratio(s1, s2), in percent rounded down
partial_ratio(s1, s2) ==
    IF Len(s1) = 0 /\ Len(s2) = 0 THEN 100
    ELSE LET shorter == IF Len(s1) <= Len(s2) THEN s1 ELSE s2
             longer == IF Len(s1) <= Len(s2) THEN s2 ELSE s1
             res == PartialRatioImpl(shorter, longer)
         IN  IF res # 100 /\ Len(s1) = Len(s2)
             THEN Max(res, PartialRatioImpl(longer, shorter))
             ELSE res

(***************************************************************************)
(* EnhancedTextAnalyzer: the three tiers of the matcher.                   *)
(***************************************************************************)
\* find_exact_phrase_positions
find_exact_phrase_positions(p, t) == FindIter(p, t)

\* the span of one match with the word indices brought into the word list
\* where they lie outside it, instead of the match being left out
NormalizedPositionClamped(norm_text, t, ms, me) ==
    LET text_words == word_pattern(t)
        start_idx == Min(SplitCount(Slice(norm_text, 0, ms)), Len(text_words) - 1)
        end_idx == Min(SplitCount(Slice(norm_text, 0, me)), Len(text_words))
    IN  IF text_words = <<>> THEN <<>>
        ELSE << << text_words[start_idx + 1][1],
                   IF end_idx > 0 THEN text_words[end_idx][2]
                   ELSE text_words[Len(text_words)][2] >> >>

\* the original-text span of one match <<ms, me>> of the normalized phrase in
\* the normalized text, as a list of no or one span
NormalizedPosition(norm_text, t, ms, me) ==
    LET text_words == word_pattern(t)
        start_idx == SplitCount(Slice(norm_text, 0, ms))
        end_idx == SplitCount(Slice(norm_text, 0, me))
    IN  IF start_idx < Len(text_words) /\ end_idx <= Len(text_words)
        THEN << << text_words[start_idx + 1][1],
                   IF end_idx > 0 THEN text_words[end_idx][2]
                   ELSE text_words[Len(text_words)][2] >> >>
        ELSE <<>>

\* the original-text spans of the matches found in the normalized text
NormalizedPositions(norm_text, t, matches) ==
    Concat([k \in 1..Len(matches) |->
              NormalizedPosition(norm_text, t, matches[k][1], matches[k][2])])

\* find_normalized_phrase_positions
find_normalized_phrase_positions(p, t) ==
    NormalizedPositions(normalize_phrase(t), t,
                        FindIter(normalize_phrase(p), normalize_phrase(t)))

\* the default threshold of is_phrase_in_text, in percent
DefaultThreshold == 85
\* the share of the phrase's keywords the text has to hold, in percent
KeywordShare == 70
\* the number of words from which a phrase is tried semantically
MinSemanticWords == 3

\* what is_phrase_in_text gives: a tuple it returns, or an exception it raises
Returned(found, match_type, positions) ==
    [exc |-> "", found |-> found, match_type |-> match_type, positions |-> positions]
Raised(exc) ==
    [exc |-> exc, found |-> FALSE, match_type |-> "none", positions |-> <<>>]

\* the keywords common to phrase and text
common_keywords(p, t) == get_phrase_keywords(p) \cap get_phrase_keywords(t)

\* the starts of a list of spans
Starts(spans) == { spans[k][1] : k \in 1..Len(spans) }

\* the offsets in the normalized text at which the common keywords occur
KeywordOffsets(p, t) ==
    UNION { Starts(FindIterWord(kw, normalize_phrase(t))) : kw \in common_keywords(p, t) }

\* a set of numbers as the ascending list
Ascending(S) ==
    [k \in 1..Cardinality(S) |->
        CHOOSE x \in S : Cardinality({o \in S : o < x}) = k - 1]

\* the third tier once keyword share and similarity suffice: the word list of
\* the original text is indexed by the offset of each keyword occurrence.
\* The source walks the keywords in the order of a Python set; the spans are
\* listed here by offset.
IndexedWords(offs, words) ==
    IF \E k \in 1..Len(offs) : offs[k] >= Len(words)
    THEN Raised("IndexError")
    ELSE IF offs = <<>> THEN Returned(FALSE, "none", <<>>)
    ELSE Returned(TRUE, "semantic", [k \in 1..Len(offs) |-> words[offs[k] + 1]])

SemanticPositions(p, t) == IndexedWords(Ascending(KeywordOffsets(p, t)), word_pattern(t))

\* the keyword test of the third tier: both keyword sets are non-empty and
\* the text holds at least KeywordShare percent of the phrase's keywords
KeywordsSuffice(phrase_keywords, text_keywords) ==
    /\ phrase_keywords # {} /\ text_keywords # {}
    /\ 100 * Cardinality(phrase_keywords \cap text_keywords)
         >= KeywordShare * Cardinality(phrase_keywords)

\* the conditions under which the third tier computes the fuzzy similarity
ReachesFuzzy(p, t) ==
    /\ SplitCount(p) >= MinSemanticWords
    /\ KeywordsSuffice(get_phrase_keywords(p), get_phrase_keywords(t))

\* the third tier without the test of the phrase's word count
SemanticTierAnyLength(p, t, threshold) ==
    IF /\ KeywordsSuffice(get_phrase_keywords(p), get_phrase_keywords(t))
       /\ partial_ratio(normalize_phrase(p), normalize_phrase(t)) >= threshold
    THEN SemanticPositions(p, t)
    ELSE Returned(FALSE, "none", <<>>)

\* the third tier without the test of the fuzzy similarity
SemanticTierWithoutFuzzy(p, t, threshold) ==
    IF ReachesFuzzy(p, t)
    THEN SemanticPositions(p, t)
    ELSE Returned(FALSE, "none", <<>>)

\* the third tier of is_phrase_in_text
SemanticTier(p, t, threshold) ==
    IF /\ ReachesFuzzy(p, t)
       /\ partial_ratio(normalize_phrase(p), normalize_phrase(t)) >= threshold
    THEN SemanticPositions(p, t)
    ELSE Returned(FALSE, "none", <<>>)

\* the tiers with the spans of the exact and the normalized tier put
\* together when both found some
FirstTierAccumulating(exact_positions, normalized_positions, semantic) ==
    IF exact_positions # <<>>
    THEN Returned(TRUE, "exact", exact_positions \o normalized_positions)
    ELSE IF normalized_positions # <<>>
         THEN Returned(TRUE, "normalized", normalized_positions)
    ELSE semantic

\* the tiers in their order: the first one with positions decides
FirstTier(exact_positions, normalized_positions, semantic) ==
    IF exact_positions # <<>> THEN Returned(TRUE, "exact", exact_positions)
    ELSE IF normalized_positions # <<>>
         THEN Returned(TRUE, "normalized", normalized_positions)
    ELSE semantic

\* is_phrase_in_text
is_phrase_in_text(p, t, threshold) ==
    FirstTier(find_exact_phrase_positions(p, t),
              find_normalized_phrase_positions(p, t),
              SemanticTier(p, t, threshold))

(***************************************************************************)
(* ConversationHighlight (src/models/conversation_model.py) and the        *)
(* highlight merger, add_highlights_to_text.                               *)
(***************************************************************************)
\* ConversationHighlight as it would be with dictionary_color declared as a
\* seventh field
ConversationHighlightWithColor(ph, start_pos, end_pos, dictionary_name, dictionary_id, dictionary_color, match_type) ==
    [phrase |-> ph, start_pos |-> start_pos, end_pos |-> end_pos,
     dictionary_id |-> dictionary_id, dictionary_name |-> dictionary_name,
     dictionary_color |-> dictionary_color, match_type |-> match_type]

\* ConversationHighlight(...): the model declares six fields and no
\* dictionary_color; a keyword argument that is no field is dropped
ConversationHighlight(ph, start_pos, end_pos, dictionary_name, dictionary_id, dictionary_color, match_type) ==
    [phrase |-> ph, start_pos |-> start_pos, end_pos |-> end_pos,
     dictionary_id |-> dictionary_id, dictionary_name |-> dictionary_name,
     match_type |-> match_type]

\* whether reading attribute attr of object obj succeeds
HasAttr(obj, attr) == attr \in DOMAIN obj

RECURSIVE UniqueHighlights(_, _)
\* unique_highlights.values(): the first highlight of every (start_pos,
\* end_pos), in the order of first appearance
UniqueHighlights(highlights, seen) ==
    IF highlights = <<>> THEN <<>>
    ELSE LET h == Head(highlights)
             key == <<h.start_pos, h.end_pos>>
         IN  IF key \in seen THEN UniqueHighlights(Tail(highlights), seen)
             ELSE <<h>> \o UniqueHighlights(Tail(highlights), seen \cup {key})

RECURSIVE InsertByStart(_, _)
\* h put into the sorted list after every element whose start_pos is not larger
InsertByStart(sorted, h) ==
    IF sorted = <<>> THEN <<h>>
    ELSE IF Head(sorted).start_pos <= h.start_pos
         THEN <<Head(sorted)>> \o InsertByStart(Tail(sorted), h)
         ELSE <<h>> \o sorted

RECURSIVE SortByStart(_, _)
\* sorted(..., key=lambda x: x.start_pos): a stable sort
SortByStart(highlights, sorted) ==
    IF highlights = <<>> THEN sorted
    ELSE SortByStart(Tail(highlights), InsertByStart(sorted, Head(highlights)))

\* the highlight that replaces two overlapping or touching ones
MergedHighlight(cur, h) ==
    ConversationHighlight(cur.phrase \o <<"|">> \o h.phrase,
                          Min(cur.start_pos, h.start_pos),
                          Max(cur.end_pos, h.end_pos),
                          "multiple", 0, "#ff9900", "merged")

RECURSIVE SweepOverlapping(_, _, _)
\* the sweep that merges only spans that overlap, not spans that touch
SweepOverlapping(sorted, cur, merged) ==
    IF sorted = <<>> THEN merged \o cur
    ELSE LET h == Head(sorted)
         IN  IF cur = <<>> THEN SweepOverlapping(Tail(sorted), <<h>>, merged)
             ELSE IF h.start_pos < cur[1].end_pos
                  THEN SweepOverlapping(Tail(sorted), <<MergedHighlight(cur[1], h)>>, merged)
                  ELSE SweepOverlapping(Tail(sorted), <<h>>, merged \o cur)

RECURSIVE Sweep(_, _, _)
\* the sweep over the sorted highlights; cur = <<>> stands for None, and
\* otherwise holds the open highlight
Sweep(sorted, cur, merged) ==
    IF sorted = <<>> THEN merged \o cur
    ELSE LET h == Head(sorted)
         IN  IF cur = <<>> THEN Sweep(Tail(sorted), <<h>>, merged)
             ELSE IF h.start_pos <= cur[1].end_pos
                  THEN Sweep(Tail(sorted), <<MergedHighlight(cur[1], h)>>, merged)
                  ELSE Sweep(Tail(sorted), <<h>>, merged \o cur)

\* merged_highlights of add_highlights_to_text
merged_highlights(highlights) ==
    Sweep(SortByStart(UniqueHighlights(highlights, {}), <<>>), <<>>, <<>>)

\* the rendered text is a list of characters and tags
Chr(c) == [kind |-> "char", c |-> c]
Chars(s) == [i \in 1..Len(s) |-> Chr(s[i])]
MarkOpen(h) ==
    [kind |-> "mark",
     color |-> IF h.dictionary_color = "" THEN "#cccccc" ELSE h.dictionary_color,
     match_type |-> h.match_type,
     dictionary_name |-> h.dictionary_name,
     dictionary_id |-> h.dictionary_id]
MarkClose == [kind |-> "/mark"]

RECURSIVE RenderParts(_, _, _)
\* result_parts, joined: the text between the highlights copied, every
\* highlight's slice of the text wrapped in <mark ...> and </mark>
RenderParts(t, merged, last_pos) ==
    IF merged = <<>>
    THEN IF last_pos < Len(t) THEN Chars(Slice(t, last_pos, Len(t))) ELSE <<>>
    ELSE LET h == Head(merged)
         IN  (IF h.start_pos > last_pos
              THEN Chars(Slice(t, last_pos, h.start_pos)) ELSE <<>>)
             \o <<MarkOpen(h)>>
             \o Chars(Slice(t, h.start_pos, h.end_pos))
             \o <<MarkClose>>
             \o RenderParts(t, Tail(merged), h.end_pos)

\* what add_highlights_to_text gives: the rendered text, or an exception
Rendered(value) == [exc |-> "", value |-> value]
RenderRaised(exc) == [exc |-> exc, value |-> <<>>]

\* the loop over merged_highlights: building a tag reads
\* highlight.dictionary_color
RenderMerged(t, merged) ==
    IF \E k \in 1..Len(merged) : ~HasAttr(merged[k], "dictionary_color")
    THEN RenderRaised("AttributeError")
    ELSE Rendered(RenderParts(t, merged, 0))

\* add_highlights_to_text
add_highlights_to_text(t, highlights) ==
    IF highlights = <<>> THEN Rendered(Chars(t))
    ELSE RenderMerged(t, merged_highlights(highlights))

\* a rendered text with every <mark ...> and </mark> removed
StripMarks(value) ==
    LET kept == SelectSeq(value, LAMBDA x : x.kind = "char")
    IN  [i \in 1..Len(kept) |-> kept[i].c]

(***************************************************************************)
(* TextAnalyzer.analyze_utterance.                                         *)
(***************************************************************************)
\* DictionaryType (src/entities/dictionary_entity.py)
CLIENT == "client"
OPERATOR == "operator"
BOTH == "both"

\* the condition of the `continue` of analyze_utterance, negated
AppliesTo(dictionary, speaker) ==
    ~ \/ (dictionary.type = CLIENT /\ speaker # "client")
      \/ (dictionary.type = OPERATOR /\ speaker # "operator")

\* the highlights of one found phrase, one per position
PhraseHighlights(dictionary, ph, out) ==
    [k \in 1..Len(out.positions) |->
        ConversationHighlight(ph, out.positions[k][1], out.positions[k][2],
                              dictionary.name, dictionary.id, dictionary.color,
                              out.match_type)]

\* one pass of the loop over dictionary["phrases"]: acc after the matcher
\* gave out for phrase ph
PhraseStep(dictionary, ph, out, acc) ==
    IF out.exc # "" THEN [acc EXCEPT !.exc = out.exc]
    ELSE IF ~out.found THEN acc
    ELSE IF ~HasAttr(dictionary, "color") THEN [acc EXCEPT !.exc = "KeyError"]
    ELSE [acc EXCEPT !.matched = Append(@, ph),
                     !.highlights = @ \o PhraseHighlights(dictionary, ph, out)]

RECURSIVE MatchPhrases(_, _, _, _)
\* the loop over dictionary["phrases"], from phrase k on; acc holds the
\* exception raised so far (if any), matched and result.highlights
MatchPhrases(dictionary, t, k, acc) ==
    IF acc.exc # "" \/ k > Len(dictionary.phrases) THEN acc
    ELSE MatchPhrases(dictionary, t, k + 1,
            PhraseStep(dictionary, dictionary.phrases[k],
                       is_phrase_in_text(dictionary.phrases[k], t, DefaultThreshold),
                       acc))

\* one pass of the loop over dictionaries: acc after the loop over the
\* phrases of dictionary gave m
DictionaryStep(dictionary, m, acc) ==
    [exc |-> m.exc,
     matched_phrases |->
        IF m.matched # <<>>
        THEN (dictionary.id :> m.matched) @@ acc.matched_phrases
        ELSE acc.matched_phrases,
     highlights |-> m.highlights]

RECURSIVE ScanDictionaries(_, _, _)
\* the loop over dictionaries; acc holds the exception raised so far (if
\* any), result.matched_phrases and result.highlights
ScanDictionaries(dictionaries, utterance, acc) ==
    IF acc.exc # "" \/ dictionaries = <<>> THEN acc
    ELSE IF ~AppliesTo(Head(dictionaries), utterance.speaker)
         THEN ScanDictionaries(Tail(dictionaries), utterance, acc)
    ELSE ScanDictionaries(Tail(dictionaries), utterance,
            DictionaryStep(Head(dictionaries),
                MatchPhrases(Head(dictionaries), utterance.text, 1,
                    [exc |-> "", matched |-> <<>>, highlights |-> acc.highlights]),
                acc))

\* what analyze_utterance gives: an AnalysisResult, or an exception
AnalysisResult(matched_phrases, highlights, text_with_highlights) ==
    [exc |-> "", matched_phrases |-> matched_phrases, highlights |-> highlights,
     text_with_highlights |-> text_with_highlights]
AnalysisRaised(exc) ==
    [exc |-> exc, matched_phrases |-> <<>>, highlights |-> <<>>,
     text_with_highlights |-> <<>>]

\* the result once the loops gave scan: the text as it is without
\* highlights, and else the text with the highlights added (marked)
ResultOf(utterance, scan, marked) ==
    IF scan.exc # "" THEN AnalysisRaised(scan.exc)
    ELSE IF scan.highlights = <<>>
         THEN AnalysisResult(scan.matched_phrases, <<>>, Chars(utterance.text))
    ELSE IF marked.exc # "" THEN AnalysisRaised(marked.exc)
    ELSE AnalysisResult(scan.matched_phrases, scan.highlights, marked.value)

\* the text with the highlights of scan added
MarkedText(utterance, scan) == add_highlights_to_text(utterance.text, scan.highlights)

\* the result for what the loops gave
ScanResult(utterance, scan) == ResultOf(utterance, scan, MarkedText(utterance, scan))

\* analyze_utterance past the cache lookup: the result it computes
ComputeResult(utterance, dictionaries) ==
    ScanResult(utterance,
        ScanDictionaries(dictionaries, utterance,
            [exc |-> "", matched_phrases |-> <<>>, highlights |-> <<>>]))

\* a key made of the text alone
cache_key_of_text(utterance, dictionaries) == <<utterance.text>>

\* cache_key: the text and hash(str(dictionaries)); the hash is taken to
\* tell apart the lists of the model, and the speaker is no part of the key
cache_key(utterance, dictionaries) == <<utterance.text, dictionaries>>

\* len(self.analysis_cache) > 1000
CacheLimit == 1000

\* preprocess_dictionaries: the dictionaries by id
preprocess_dictionaries(dictionaries) ==
    [id \in { dictionaries[k].id : k \in 1..Len(dictionaries) } |->
        LET k == CHOOSE k \in 1..Len(dictionaries) :
                    /\ dictionaries[k].id = id
                    /\ \A j \in (k + 1)..Len(dictionaries) : dictionaries[j].id # id
        IN  dictionaries[k]]

\* the cache after a store that is followed by no test of its size
StoredCacheKeepAll(cache, others, key, result) ==
    [cache |-> (key :> result) @@ cache, others |-> others]

\* the cache after analyze_utterance stored result under key: emptied when
\* it then holds more than CacheLimit entries
StoredCache(cache, others, key, result) ==
    LET stored == (key :> result) @@ cache
    IN  IF Cardinality(DOMAIN stored) + others > CacheLimit
        THEN [cache |-> <<>>, others |-> 0]
        ELSE [cache |-> stored, others |-> others]

(***************************************************************************)
(* The inputs of the matcher: words of the model's letters, joined by one  *)
(* space.                                                                  *)
(***************************************************************************)
PhraseVocab == { <<"a">>, <<"a", "s">>, <<"s", "a", "k">>, <<"k", "a", "s">>, <<",">> }
TextVocab == { <<"a">>, <<"S", "a", "k">>, <<",">> }

\* the strings of at most n tokens of vocab
Strings(vocab, n) ==
    { JoinSpace(ws) : ws \in UNION { [1..k -> vocab] : k \in 0..n } }

Phrases == Strings(PhraseVocab, MaxPhraseTokens)
Texts == Strings(TextVocab, MaxTextTokens)

\* the dictionaries of the model; the last one is as TaskProcessor builds
\* it, without "color"
OperatorDict ==
    [id |-> 1, name |-> "operator", type |-> OPERATOR,
     phrases |-> << <<"s", "a", "k">> >>, color |-> "#ff0000"]
ClientDict ==
    [id |-> 2, name |-> "client", type |-> CLIENT,
     phrases |-> << <<"a", "s">> >>, color |-> "#00ff00"]
BothDict ==
    [id |-> 3, name |-> "both", type |-> BOTH,
     phrases |-> << <<"a", " ", "a", " ", "s", "a", "k">>, <<",">> >>]

DictLists == { <<>>, <<OperatorDict>>, <<ClientDict, OperatorDict>>, <<BothDict>> }

Speakers == {"client", "operator"}
UttTexts == { <<"S", "a", "k">>, <<"a", " ", "S", "a", "k">> }
Utterance(speaker, t) == [speaker |-> speaker, text |-> t]

RenderTexts == { t \in Texts : Len(t) <= MaxRenderLen }
RenderDicts == { OperatorDict, ClientDict }
\* the highlights a caller may pass for text t
HighlightsOf(t) ==
    { ConversationHighlight(d.phrases[1], s, e, d.name, d.id, d.color, "exact") :
        s \in 0..Len(t), e \in 0..Len(t), d \in RenderDicts }
HighlightLists(t) == UNION { [1..n -> HighlightsOf(t)] : n \in 0..MaxHighlights }

Workers == 1..NumWorkers

(***************************************************************************)
(* The states in which a part of the model has not been used.              *)
(***************************************************************************)
NoCall ==
    [called |-> FALSE, utterance |-> Utterance("", <<>>), dictionaries |-> <<>>,
     hit |-> FALSE, outcome |-> AnalysisRaised("")]
NoTask == [other |-> FALSE, utterance |-> Utterance("", <<>>), dictionaries |-> <<>>]

MatchIdle ==
    /\ phrase = <<>> /\ text = <<>> /\ called = FALSE
    /\ match = Returned(FALSE, "none", <<>>)
RenderIdle ==
    /\ render_text = <<>> /\ render_highlights = <<>> /\ render_done = FALSE
    /\ rendered = Rendered(<<>>)
AnalyzerIdle ==
    /\ analysis_cache = <<>> /\ other_entries = 0 /\ stored_for = <<>>
    /\ preprocessed_dictionaries = <<>> /\ last_call = NoCall
WorkersIdle ==
    /\ pc = [w \in Workers |-> "idle"]
    /\ task = [w \in Workers |-> NoTask]
    /\ computed = [w \in Workers |-> AnalysisRaised("")]
    /\ outcome = [w \in Workers |-> AnalysisRaised("")]

ConversationIdle ==
    /\ client_segments = <<>> /\ operator_segments = <<>>
    /\ conversation = [done |-> FALSE, utterances |-> <<>>, duration |-> 0]
\* the executor threads of RecognizeThread(max_workers=2)
RecognizeWorkers == 2
RecognitionThreads == 1..RecognizeWorkers
DatabaseIdle ==
    /\ recognize_status = <<>> /\ analysis_status = <<>> /\ has_conversation = <<>>
RecognizeIdle ==
    /\ task_queue = <<>> /\ current_tasks = {} /\ current_task_ids = {}
    /\ wpc = "sleep"
    /\ rpc = [w \in RecognitionThreads |-> "idle"]
    /\ rtask = [w \in RecognitionThreads |-> 0]
    /\ db_record = [w \in RecognitionThreads |-> 0]
ProcessorIdle ==
    /\ proc_queue = <<>>
    /\ proc_call = [called |-> FALSE, recording_id |-> 0, before |-> 0, had_conversation |-> FALSE]
ThreadsIdle == DatabaseIdle /\ RecognizeIdle /\ ProcessorIdle
PipelineIdle == ConversationIdle /\ ThreadsIdle

(***************************************************************************)
(* The matcher applied to one phrase and one text.                         *)
(***************************************************************************)
InitMatch ==
    /\ phrase \in Phrases
    /\ text \in Texts
    /\ called = FALSE
    /\ match = Returned(FALSE, "none", <<>>)
    /\ RenderIdle /\ AnalyzerIdle /\ WorkersIdle /\ PipelineIdle

IsPhraseInText ==
    /\ ~called
    /\ called' = TRUE
    /\ match' = is_phrase_in_text(phrase, text, DefaultThreshold)
    /\ UNCHANGED <<phrase, text, renderVars, pipelineVars, analyzerVars, workerVars>>

NextMatch == IsPhraseInText

SpecMatch == InitMatch /\ [][NextMatch]_vars

(***************************************************************************)
(* The highlight merger applied to one text and one list of highlights.    *)
(***************************************************************************)
InitRender ==
    /\ render_text \in RenderTexts
    /\ render_highlights \in HighlightLists(render_text)
    /\ render_done = FALSE
    /\ rendered = Rendered(<<>>)
    /\ MatchIdle /\ AnalyzerIdle /\ WorkersIdle /\ PipelineIdle

AddHighlightsToText ==
    /\ ~render_done
    /\ render_done' = TRUE
    /\ rendered' = add_highlights_to_text(render_text, render_highlights)
    /\ UNCHANGED <<render_text, render_highlights, matchVars, pipelineVars, analyzerVars, workerVars>>

NextRender == AddHighlightsToText

SpecRender == InitRender /\ [][NextRender]_vars

(***************************************************************************)
(* One TextAnalyzer called by one thread.                                  *)
(***************************************************************************)
\* a cache the program can have built: empty, or near its limit with
\* entries for texts outside the model
OtherStart == {0} \cup ((CacheLimit - Headroom)..CacheLimit)

InitAnalyzer ==
    /\ analysis_cache = <<>>
    /\ other_entries \in OtherStart
    /\ stored_for = <<>>
    /\ preprocessed_dictionaries = <<>>
    /\ last_call = NoCall
    /\ MatchIdle /\ RenderIdle /\ WorkersIdle /\ PipelineIdle

\* ComputeResult on the calls of the model, evaluated once
ComputedResults ==
    [speaker \in Speakers, t \in UttTexts, dictionaries \in DictLists |->
        ComputeResult(Utterance(speaker, t), dictionaries)]

\* analyze_utterance(utterance, dictionaries)
AnalyzeUtteranceCall(utterance, dictionaries) ==
    LET key == cache_key(utterance, dictionaries)
        result == ComputedResults[utterance.speaker, utterance.text, dictionaries]
        after == StoredCache(analysis_cache, other_entries, key, result)
    IN  IF key \in DOMAIN analysis_cache
        THEN /\ last_call' = [called |-> TRUE, utterance |-> utterance,
                              dictionaries |-> dictionaries, hit |-> TRUE,
                              outcome |-> analysis_cache[key]]
             /\ UNCHANGED <<analysis_cache, other_entries, stored_for,
                            preprocessed_dictionaries>>
        ELSE /\ preprocessed_dictionaries' =
                    IF preprocessed_dictionaries = <<>>
                    THEN preprocess_dictionaries(dictionaries)
                    ELSE preprocessed_dictionaries
             /\ last_call' = [called |-> TRUE, utterance |-> utterance,
                              dictionaries |-> dictionaries, hit |-> FALSE,
                              outcome |-> result]
             /\ IF result.exc # ""
                THEN UNCHANGED <<analysis_cache, other_entries, stored_for>>
                ELSE /\ analysis_cache' = after.cache
                     /\ other_entries' = after.others
                     /\ stored_for' =
                            IF after.cache = <<>> THEN <<>>
                            ELSE (key :> <<utterance.text, dictionaries>>) @@ stored_for

\* the result for a text outside the model, in which no phrase is found
OtherResult == AnalysisResult(<<>>, <<>>, <<>>)

\* analyze_utterance on a text outside the model, not analysed since the
\* cache was last emptied
AnalyzeOther ==
    /\ other_entries >= CacheLimit - Headroom
    /\ LET total == Cardinality(DOMAIN analysis_cache) + other_entries + 1
       IN  IF total > CacheLimit
           THEN analysis_cache' = <<>> /\ other_entries' = 0 /\ stored_for' = <<>>
           ELSE /\ analysis_cache' = analysis_cache /\ other_entries' = other_entries + 1
                /\ stored_for' = stored_for
    /\ last_call' = [NoCall EXCEPT !.called = TRUE, !.outcome = OtherResult]
    /\ UNCHANGED <<preprocessed_dictionaries, matchVars, renderVars, pipelineVars, workerVars>>

\* clear_cache()
ClearCache ==
    /\ analysis_cache' = <<>>
    /\ other_entries' = 0
    /\ stored_for' = <<>>
    /\ UNCHANGED <<preprocessed_dictionaries, last_call, matchVars, renderVars, pipelineVars, workerVars>>

\* analyze_utterance on an utterance and a dictionary list of the model
AnalyzeUtterance ==
    /\ \E speaker \in Speakers, t \in UttTexts, dictionaries \in DictLists :
            AnalyzeUtteranceCall(Utterance(speaker, t), dictionaries)
    /\ UNCHANGED <<matchVars, renderVars, pipelineVars, workerVars>>

NextAnalyzer == AnalyzeUtterance \/ AnalyzeOther \/ ClearCache

SpecAnalyzer == InitAnalyzer /\ [][NextAnalyzer]_vars

(***************************************************************************)
(* Properties of the matcher (SpecMatch).                                  *)
(***************************************************************************)
\* C3: every span is_phrase_in_text returns lies in the text and is not
\* empty: 0 <= start_pos < end_pos <= len(text)
SpansValid ==
    (called /\ match.exc = "") =>
        \A k \in 1..Len(match.positions) :
            /\ 0 <= match.positions[k][1]
            /\ match.positions[k][1] < match.positions[k][2]
            /\ match.positions[k][2] <= Len(text)

\* C7: an empty phrase, an empty text, or a phrase whose normalized form is
\* empty gives (found = false, kind = none, no spans)
EmptyOrMalformedGivesNone ==
    (called /\ (phrase = <<>> \/ text = <<>> \/ normalize_phrase(phrase) = <<>>))
        => match = Returned(FALSE, "none", <<>>)

\* the indices of the words (spans nwords of the normalized text) that the
\* match <<ms, me>> overlaps
Overlapped(nwords, ms, me) ==
    { k \in 1..Len(nwords) : nwords[k][1] < me /\ nwords[k][2] > ms }

\* the span, in the original text, from the first character of the word at
\* the lowest index of ks to the last character of the word at the highest
WordsSpan(text_words, ks) ==
    << text_words[CHOOSE k \in ks : \A o \in ks : k <= o][1],
       text_words[CHOOSE k \in ks : \A o \in ks : k >= o][2] >>

\* for every occurrence of the normalized phrase in the normalized text, the
\* extent in the original text of the words the occurrence overlaps
OverlappedSpans(nwords, text_words, matches) ==
    [k \in 1..Len(matches) |->
        WordsSpan(text_words, Overlapped(nwords, matches[k][1], matches[k][2]))]

ExpectedNormalizedSpans(p, t) ==
    OverlappedSpans(word_pattern(normalize_phrase(t)), word_pattern(t),
                    FindIter(normalize_phrase(p), normalize_phrase(t)))

\* C8: a span of the normalized tier runs from the first character of the
\* original-text word at the index of the first normalized word the match
\* overlaps to the last character of the one at the index of the last
NormalizedSpansCoverOverlappedWords ==
    (called /\ match.exc = "" /\ match.match_type = "normalized"
            /\ normalize_phrase(phrase) # <<>>)
        => match.positions = ExpectedNormalizedSpans(phrase, text)

\* the spans of the words of t whose lemma is in keywords
KeywordWordSpans(t, words, keywords) ==
    { words[k] : k \in { i \in 1..Len(words) :
        normalize_word(lower(Slice(t, words[i][1], words[i][2]))) \in keywords } }

\* the elements of a list
Range(seq) == { seq[k] : k \in 1..Len(seq) }

\* C9: a semantic match gives exactly the extents, in the original text, of
\* the words whose lemma is a keyword common to phrase and text, one span
\* each, and finding them never indexes outside the text's word list
SemanticSpansAreKeywordWords ==
    called =>
        /\ match.exc # "IndexError"
        /\ (match.exc = "" /\ match.match_type = "semantic") =>
              /\ Range(match.positions)
                   = KeywordWordSpans(text, word_pattern(text), common_keywords(phrase, text))
              /\ Len(match.positions) = Cardinality(Range(match.positions))

\* C10: a span of the exact tier that begins (ends) with a word character has
\* no word character immediately before start_pos (after end_pos)
ExactSpansOnWordBoundaries ==
    (called /\ match.exc = "" /\ match.match_type = "exact") =>
        \A k \in 1..Len(match.positions) :
            LET s == match.positions[k][1]
                e == match.positions[k][2]
            IN  s < e =>
                  /\ ~(IsWordChar(text[s + 1]) /\ s >= 1 /\ IsWordChar(text[s]))
                  /\ ~(IsWordChar(text[e]) /\ e < Len(text) /\ IsWordChar(text[e + 1]))

(***************************************************************************)
(* Properties of the highlight merger (SpecRender).                        *)
(***************************************************************************)
\* C2: the output of add_highlights_to_text with every <mark ...> and
\* </mark> removed is the input text
StrippedRenderIsText ==
    render_done =>
        /\ rendered.exc = ""
        /\ StripMarks(rendered.value) = render_text

(***************************************************************************)
(* Properties of analyze_utterance (SpecAnalyzer).                         *)
(***************************************************************************)
\* the types of the dictionaries of a list that have the given id
TypesOf(dictionaries, id) ==
    { dictionaries[k].type :
        k \in { i \in 1..Len(dictionaries) : dictionaries[i].id = id } }

\* the ids of the dictionaries a result has matched phrases or highlights of
ContributingIds(result) ==
    (DOMAIN result.matched_phrases)
        \cup { result.highlights[k].dictionary_id : k \in 1..Len(result.highlights) }

\* the dictionary type that does not apply to a speaker
ExcludedType(speaker) == IF speaker = "operator" THEN CLIENT ELSE OPERATOR

AnalyzeUtteranceNeverRaises ==
    last_call.called => last_call.outcome.exc = ""

\* C5: a call that follows a call with the same utterance and the same
\* dictionaries, the cache emptied in between or not, gives the result the
\* first one returned
RepeatedCallSameResult ==
    [][ ( /\ last_call.called /\ last_call'.called
          /\ last_call.outcome.exc = ""
          /\ last_call'.utterance = last_call.utterance
          /\ last_call'.dictionaries = last_call.dictionaries )
        => last_call'.outcome = last_call.outcome ]_vars

(***************************************************************************)
(* The threads of TaskProcessor in analyze_utterance on the one            *)
(* TextAnalyzer they share.  The source takes no lock around the cache, so *)
(* the threads interleave between any two of its accesses.                 *)
(***************************************************************************)
WorkerDictLists == { <<OperatorDict>> }
WorkerTasks ==
    { [other |-> FALSE, utterance |-> Utterance(speaker, t), dictionaries |-> dictionaries] :
        speaker \in Speakers, t \in UttTexts, dictionaries \in WorkerDictLists }
\* a call on a text outside the model, not analysed since the cache was
\* last emptied
OtherTask == [NoTask EXCEPT !.other = TRUE]

InitWorkers ==
    /\ analysis_cache = <<>>
    /\ other_entries \in OtherStart
    /\ stored_for = <<>>
    /\ preprocessed_dictionaries = <<>>
    /\ last_call = NoCall
    /\ WorkersIdle /\ MatchIdle /\ RenderIdle /\ PipelineIdle

\* cache_key in self.analysis_cache, for the call tk
InCache(tk) ==
    /\ ~tk.other
    /\ cache_key(tk.utterance, tk.dictionaries) \in DOMAIN analysis_cache

\* what the call tk computes past the cache lookup
TaskResult(tk) ==
    IF tk.other THEN OtherResult
    ELSE ComputedResults[tk.utterance.speaker, tk.utterance.text, tk.dictionaries]

\* a thread enters analyze_utterance
Call(w) ==
    /\ pc[w] = "idle"
    /\ \E tk \in WorkerTasks : task' = [task EXCEPT ![w] = tk]
    /\ pc' = [pc EXCEPT ![w] = "test"]
    /\ computed' = [computed EXCEPT ![w] = AnalysisRaised("")]
    /\ outcome' = [outcome EXCEPT ![w] = AnalysisRaised("")]
    /\ UNCHANGED <<analyzerVars, matchVars, renderVars, pipelineVars>>

\* a thread enters analyze_utterance with a text outside the model
CallOther(w) ==
    /\ pc[w] = "idle"
    /\ other_entries >= CacheLimit - Headroom
    /\ task' = [task EXCEPT ![w] = OtherTask]
    /\ pc' = [pc EXCEPT ![w] = "test"]
    /\ computed' = [computed EXCEPT ![w] = AnalysisRaised("")]
    /\ outcome' = [outcome EXCEPT ![w] = AnalysisRaised("")]
    /\ UNCHANGED <<analyzerVars, matchVars, renderVars, pipelineVars>>

\* `if cache_key in self.analysis_cache:` is true
CacheHit(w) ==
    /\ pc[w] = "test"
    /\ InCache(task[w])
    /\ pc' = [pc EXCEPT ![w] = "read"]
    /\ UNCHANGED <<task, computed, outcome, analyzerVars, matchVars, renderVars, pipelineVars>>

\* `if cache_key in self.analysis_cache:` is false
CacheMiss(w) ==
    /\ pc[w] = "test"
    /\ ~InCache(task[w])
    /\ pc' = [pc EXCEPT ![w] = "compute"]
    /\ UNCHANGED <<task, computed, outcome, analyzerVars, matchVars, renderVars, pipelineVars>>

\* `return self.analysis_cache[cache_key]`: a KeyError when the key is gone
ReadCache(w) ==
    /\ pc[w] = "read"
    /\ outcome' = [outcome EXCEPT ![w] =
            IF InCache(task[w])
            THEN analysis_cache[cache_key(task[w].utterance, task[w].dictionaries)]
            ELSE AnalysisRaised("KeyError")]
    /\ pc' = [pc EXCEPT ![w] = "idle"]
    /\ task' = [task EXCEPT ![w] = NoTask]
    /\ UNCHANGED <<computed, analyzerVars, matchVars, renderVars, pipelineVars>>

\* the analysis between the lookup and the store; an exception ends the call
Compute(w) ==
    /\ pc[w] = "compute"
    /\ preprocessed_dictionaries' =
            IF preprocessed_dictionaries = <<>>
            THEN preprocess_dictionaries(task[w].dictionaries)
            ELSE preprocessed_dictionaries
    /\ IF TaskResult(task[w]).exc # ""
       THEN /\ outcome' = [outcome EXCEPT ![w] = TaskResult(task[w])]
            /\ pc' = [pc EXCEPT ![w] = "idle"]
            /\ task' = [task EXCEPT ![w] = NoTask]
            /\ UNCHANGED computed
       ELSE /\ computed' = [computed EXCEPT ![w] = TaskResult(task[w])]
            /\ pc' = [pc EXCEPT ![w] = "store"]
            /\ UNCHANGED <<task, outcome>>
    /\ UNCHANGED <<analysis_cache, other_entries, stored_for, last_call,
                   matchVars, renderVars, pipelineVars>>

\* `self.analysis_cache[cache_key] = result`
Store(w) ==
    /\ pc[w] = "store"
    /\ IF task[w].other
       THEN /\ other_entries' = other_entries + 1
            /\ UNCHANGED <<analysis_cache, stored_for>>
       ELSE /\ analysis_cache' =
                 (cache_key(task[w].utterance, task[w].dictionaries) :> computed[w])
                    @@ analysis_cache
            /\ stored_for' =
                 (cache_key(task[w].utterance, task[w].dictionaries)
                    :> <<task[w].utterance.text, task[w].dictionaries>>) @@ stored_for
            /\ UNCHANGED other_entries
    /\ pc' = [pc EXCEPT ![w] = "size"]
    /\ UNCHANGED <<task, computed, outcome, preprocessed_dictionaries, last_call,
                   matchVars, renderVars, pipelineVars>>

\* `if len(self.analysis_cache) > 1000:` is false, and the result is returned
WithinLimit(w) ==
    /\ pc[w] = "size"
    /\ Cardinality(DOMAIN analysis_cache) + other_entries <= CacheLimit
    /\ outcome' = [outcome EXCEPT ![w] = computed[w]]
    /\ pc' = [pc EXCEPT ![w] = "idle"]
    /\ task' = [task EXCEPT ![w] = NoTask]
    /\ UNCHANGED <<computed, analyzerVars, matchVars, renderVars, pipelineVars>>

\* `if len(self.analysis_cache) > 1000:` is true
OverLimit(w) ==
    /\ pc[w] = "size"
    /\ Cardinality(DOMAIN analysis_cache) + other_entries > CacheLimit
    /\ pc' = [pc EXCEPT ![w] = "clear"]
    /\ UNCHANGED <<task, computed, outcome, analyzerVars, matchVars, renderVars, pipelineVars>>

\* `self.analysis_cache.clear()`, and the result is returned
Clear(w) ==
    /\ pc[w] = "clear"
    /\ analysis_cache' = <<>>
    /\ other_entries' = 0
    /\ stored_for' = <<>>
    /\ outcome' = [outcome EXCEPT ![w] = computed[w]]
    /\ pc' = [pc EXCEPT ![w] = "idle"]
    /\ task' = [task EXCEPT ![w] = NoTask]
    /\ UNCHANGED <<computed, preprocessed_dictionaries, last_call, matchVars, renderVars, pipelineVars>>

WorkerCalls == \E w \in Workers : Call(w)
WorkerCallsOther == \E w \in Workers : CallOther(w)
WorkerFindsKey == \E w \in Workers : CacheHit(w)
WorkerMissesKey == \E w \in Workers : CacheMiss(w)
WorkerReads == \E w \in Workers : ReadCache(w)
WorkerComputes == \E w \in Workers : Compute(w)
WorkerStores == \E w \in Workers : Store(w)
WorkerReturns == \E w \in Workers : WithinLimit(w)
WorkerFindsCacheFull == \E w \in Workers : OverLimit(w)
WorkerClears == \E w \in Workers : Clear(w)

NextWorkers ==
    \/ WorkerCalls
    \/ WorkerCallsOther
    \/ WorkerFindsKey
    \/ WorkerMissesKey
    \/ WorkerReads
    \/ WorkerComputes
    \/ WorkerStores
    \/ WorkerReturns
    \/ WorkerFindsCacheFull
    \/ WorkerClears

SpecWorkers == InitWorkers /\ [][NextWorkers]_vars

\* C6: no thread's full clear falls between another thread's `key in cache`
\* test and its read of that key: a thread about to read the cache finds
\* its key there
NoClearBetweenTestAndRead ==
    \A w \in Workers : pc[w] = "read" => InCache(task[w])

(***************************************************************************)
(* The order of the tiers (SpecMatch).                                     *)
(***************************************************************************)
\* out holds the kind and the spans of the first of the three tiers that
\* found spans, and of no other
OfFirstTier(out, exact_positions, normalized_positions, semantic) ==
    /\ out.match_type = "exact" =>
          exact_positions # <<>> /\ out.positions = exact_positions
    /\ out.match_type = "normalized" =>
          /\ exact_positions = <<>>
          /\ normalized_positions # <<>> /\ out.positions = normalized_positions
    /\ out.match_type = "semantic" =>
          /\ exact_positions = <<>> /\ normalized_positions = <<>>
          /\ out.positions = semantic.positions
    /\ out.match_type = "none" =>
          exact_positions = <<>> /\ normalized_positions = <<>>

\* C11: is_phrase_in_text returns the kind and the spans of the first tier
\* that succeeds, in the order exact, normalized, semantic, and never spans
\* of two tiers together
FirstTierWins ==
    (called /\ match.exc = "") =>
        OfFirstTier(match, find_exact_phrase_positions(phrase, text),
                    find_normalized_phrase_positions(phrase, text),
                    SemanticTier(phrase, text, DefaultThreshold))

\* the exact tier decided while the normalized tier has spans of its own
ExactWinsOverNormalized ==
    /\ called /\ match.exc = "" /\ match.match_type = "exact"
    /\ find_normalized_phrase_positions(phrase, text) # <<>>
    /\ find_normalized_phrase_positions(phrase, text) # match.positions

(***************************************************************************)
(* Matches of the normalized tier that map outside the word list           *)
(* (SpecMatch).                                                            *)
(***************************************************************************)
\* the word indices of the match <<ms, me>> of the normalized text lie in
\* the list of the nwords words of the original text
InWordList(norm_text, nwords, ms, me) ==
    /\ SplitCount(Slice(norm_text, 0, ms)) < nwords
    /\ SplitCount(Slice(norm_text, 0, me)) <= nwords

\* the matches of a list whose word indices lie in the word list
MatchesInWordList(norm_text, nwords, matches) ==
    { k \in 1..Len(matches) :
        InWordList(norm_text, nwords, matches[k][1], matches[k][2]) }

\* every match outside the word list gives no span, the others one span
\* each, and every span starts where a word of the original text starts and
\* ends where one ends
OnlyInWordList(norm_text, t, matches, positions) ==
    /\ \A k \in 1..Len(matches) :
          ~InWordList(norm_text, Len(word_pattern(t)), matches[k][1], matches[k][2])
             => NormalizedPosition(norm_text, t, matches[k][1], matches[k][2]) = <<>>
    /\ Len(positions)
          = Cardinality(MatchesInWordList(norm_text, Len(word_pattern(t)), matches))
    /\ \A k \in 1..Len(positions) :
          /\ \E w \in WordRuns(t) : w[1] = positions[k][1]
          /\ \E w \in WordRuns(t) : w[2] = positions[k][2]

\* C12: a match of the normalized phrase whose word indices lie outside the
\* original text's word list gives no span and no exception, and when the
\* exact and the normalized tier give no span the outcome is that of the
\* semantic tier
OutOfBoundsMatchGivesNoSpan ==
    called =>
        /\ OnlyInWordList(normalize_phrase(text), text,
                          FindIter(normalize_phrase(phrase), normalize_phrase(text)),
                          find_normalized_phrase_positions(phrase, text))
        /\ ( /\ find_exact_phrase_positions(phrase, text) = <<>>
             /\ find_normalized_phrase_positions(phrase, text) = <<>> )
              => match = SemanticTier(phrase, text, DefaultThreshold)

\* the normalized phrase occurs in the normalized text, every occurrence
\* maps outside the word list, and the phrase has the words for the
\* semantic tier
AllMatchesOutOfBounds ==
    /\ called
    /\ find_exact_phrase_positions(phrase, text) = <<>>
    /\ FindIter(normalize_phrase(phrase), normalize_phrase(text)) # <<>>
    /\ find_normalized_phrase_positions(phrase, text) = <<>>
    /\ SplitCount(phrase) >= MinSemanticWords
    /\ match = Returned(FALSE, "none", <<>>)

(***************************************************************************)
(* The normalized tier applied to texts whose lower case has more words    *)
(* than the text itself.                                                   *)
(***************************************************************************)
MaxMixedPhraseTokens == 2
MaxMixedTextTokens == 3
MixedPhraseVocab == { <<"s", "a", "k">>, <<"a">>, <<",">> }
MixedTextVocab == { <<"I", "a">>, <<"S", "a", "k">>, <<"a">> }
MixedPhrases == Strings(MixedPhraseVocab, MaxMixedPhraseTokens)
MixedTexts == Strings(MixedTextVocab, MaxMixedTextTokens)

InitNormalized ==
    /\ phrase \in MixedPhrases
    /\ text \in MixedTexts
    /\ called = FALSE
    /\ match = Returned(FALSE, "none", <<>>)
    /\ RenderIdle /\ AnalyzerIdle /\ WorkersIdle /\ PipelineIdle

\* what is_phrase_in_text makes of the positions of the normalized tier
NormalizedOutcome(positions) ==
    IF positions # <<>> THEN Returned(TRUE, "normalized", positions)
    ELSE Returned(FALSE, "none", <<>>)

FindNormalizedPhrasePositions ==
    /\ ~called
    /\ called' = TRUE
    /\ match' = NormalizedOutcome(find_normalized_phrase_positions(phrase, text))
    /\ UNCHANGED <<phrase, text, renderVars, pipelineVars, analyzerVars, workerVars>>

NextNormalized == FindNormalizedPhrasePositions

SpecNormalized == InitNormalized /\ [][NextNormalized]_vars

\* C13: when the normalized text has another number of words than the
\* original text, the normalized tier returns no match
WordCountMismatchGivesNoMatch ==
    (called /\ Len(word_pattern(normalize_phrase(text))) # Len(word_pattern(text)))
        => match = Returned(FALSE, "none", <<>>)

(***************************************************************************)
(* The size of the analysis cache (SpecAnalyzer).                          *)
(***************************************************************************)
\* len(self.analysis_cache)
CacheSize == Cardinality(DOMAIN analysis_cache) + other_entries

\* a step takes an entry out of the cache
Evicts ==
    \/ (DOMAIN analysis_cache) \ (DOMAIN analysis_cache') # {}
    \/ other_entries' < other_entries

\* C14: after every call the cache holds at most 1000 entries; a step that
\* takes an entry out empties the whole cache, and a call of
\* analyze_utterance does so only when its store made the size exceed 1000
CacheBoundedByFullEviction ==
    [][ /\ CacheSize' <= CacheLimit
        /\ Evicts => (analysis_cache' = <<>> /\ other_entries' = 0)
        /\ (Evicts /\ last_call' # last_call) => CacheSize + 1 > CacheLimit ]_vars

\* a call has stored its result and the cache holds exactly 1000 entries
CacheFilledToLimit ==
    /\ last_call.called /\ ~last_call.hit /\ last_call.outcome.exc = ""
    /\ analysis_cache # <<>>
    /\ CacheSize = CacheLimit

\* C15: after clear_cache() every cache of the analyzer is empty, the
\* preprocessed dictionaries included
ClearCacheEmptiesEveryCache ==
    [][ ClearCache => (analysis_cache' = <<>> /\ preprocessed_dictionaries' = <<>>) ]_vars

IsMerged(m) ==
    m.dictionary_name = "multiple" /\ m.match_type = "merged" /\ m.dictionary_id = 0

\* h neither overlaps nor touches another highlight of the list: one that
\* starts before it ends before h starts, one that starts after it starts
\* after h ends
Isolated(h, unique) ==
    \A k \in 1..Len(unique) :
        unique[k] = h
        \/ (unique[k].start_pos < h.start_pos /\ unique[k].end_pos < h.start_pos)
        \/ (h.start_pos < unique[k].start_pos /\ h.end_pos < unique[k].start_pos)

RECURSIVE JoinPhrases(_)
\* the phrases of a list of highlights, joined by "|"
JoinPhrases(hs) ==
    IF Len(hs) = 1 THEN hs[1].phrase
    ELSE hs[1].phrase \o <<"|">> \o JoinPhrases(Tail(hs))

\* the greatest end_pos of the first n highlights of a list
MaxEnd(hs, n) ==
    CHOOSE e \in { hs[k].end_pos : k \in 1..n } :
        \A k \in 1..n : hs[k].end_pos <= e

\* m is what a run of the sorted highlights becomes: a run of one is that
\* highlight; in a longer run every highlight starts at or before the
\* greatest end of those before it, and m spans the run from its least
\* start to its greatest end, with the phrases joined
MadeOf(m, run) ==
    /\ \A j \in 2..Len(run) : run[j].start_pos <= MaxEnd(run, j - 1)
    /\ IF Len(run) = 1 THEN m = run[1]
       ELSE /\ IsMerged(m)
            /\ m.start_pos = run[1].start_pos
            /\ m.end_pos = MaxEnd(run, Len(run))
            /\ m.phrase = JoinPhrases(run)

\* the runs of sorted that begin at the indices firsts (an ascending list
\* that begins with 1)
RunOf(sorted, firsts, k) ==
    SubSeq(sorted, firsts[k],
           IF k = Len(firsts) THEN Len(sorted) ELSE firsts[k + 1] - 1)

\* merged is what the sweep has to make of sorted, cut into the runs that
\* begin at firsts: a run begins where a highlight starts after the
\* greatest end of the run before it
SweptInRuns(merged, sorted, firsts) ==
    /\ Len(merged) = Len(firsts)
    /\ \A k \in 1..Len(firsts) : MadeOf(merged[k], RunOf(sorted, firsts, k))
    /\ \A k \in 2..Len(firsts) :
          sorted[firsts[k]].start_pos
              > MaxEnd(RunOf(sorted, firsts, k - 1), Len(RunOf(sorted, firsts, k - 1)))

\* merged is what the sweep has to make of the de-duplicated highlights
\* unique, sorted being those ordered by start_pos
SweptAndMerged(merged, unique, sorted) ==
    /\ \A k \in 1..(Len(sorted) - 1) : sorted[k].start_pos <= sorted[k + 1].start_pos
    /\ IF sorted = <<>> THEN merged = <<>>
       ELSE \E rest \in SUBSET (2..Len(sorted)) :
               SweptInRuns(merged, sorted, Ascending({1} \cup rest))
    /\ \A j \in 1..Len(unique) :
          Isolated(unique[j], unique) => \E k \in 1..Len(merged) : merged[k] = unique[j]

\* the spans (0, 5, A), (3, 8, B), (10, 12, C)
ExampleA == ConversationHighlight(<<"A">>, 0, 5, "a", 1, "#ff0000", "exact")
ExampleB == ConversationHighlight(<<"B">>, 3, 8, "b", 2, "#00ff00", "normalized")
ExampleC == ConversationHighlight(<<"C">>, 10, 12, "c", 3, "#0000ff", "semantic")
ExampleMerged ==
    ConversationHighlight(<<"A", "|", "B">>, 0, 8, "multiple", 0, "#ff9900", "merged")

\* C17: the de-duplicated highlights are sorted by start_pos and swept: one
\* that starts at or before the end of the open one is merged into it (least
\* start, greatest end, phrases joined by "|", name "multiple", kind
\* "merged"); one that neither overlaps nor touches another stays as it is;
\* (0, 5, A), (3, 8, B), (10, 12, C) give (0, 8, merged) and C
SweepMergesTouchingSpans ==
    render_done =>
        /\ SweptAndMerged(merged_highlights(render_highlights),
                          UniqueHighlights(render_highlights, {}),
                          SortByStart(UniqueHighlights(render_highlights, {}), <<>>))
        /\ merged_highlights(<<ExampleC, ExampleA, ExampleB>>) = <<ExampleMerged, ExampleC>>

\* two highlights that touch have been merged into one, in a call that
\* has been made
TouchingSpansMerged ==
    /\ render_done
    /\ Len(render_highlights) = 2
    /\ render_highlights[1].start_pos < render_highlights[1].end_pos
    /\ render_highlights[2].start_pos = render_highlights[1].end_pos
    /\ render_highlights[2].start_pos < render_highlights[2].end_pos
    /\ Len(merged_highlights(render_highlights)) = 1
    /\ IsMerged(merged_highlights(render_highlights)[1])

\* every highlight of the list has the span of the first one
SameSpan(highlights) ==
    \A k \in 1..Len(highlights) :
        /\ highlights[k].start_pos = highlights[1].start_pos
        /\ highlights[k].end_pos = highlights[1].end_pos

\* the tag opened for highlight h
MarkOf(h) ==
    { x \in [kind : {"mark"}, match_type : {h.match_type},
             dictionary_name : {h.dictionary_name},
             dictionary_id : {h.dictionary_id}, color : {"#ff0000", "#00ff00", "#cccccc"}] : TRUE }

\* C18: highlights with one and the same (start_pos, end_pos) collapse to
\* the first of them in input order, and the text is rendered with one tag
\* that carries the metadata of that first one
SameSpanRenderedAsFirstSeen ==
    (render_done /\ render_highlights # <<>> /\ SameSpan(render_highlights)) =>
        /\ merged_highlights(render_highlights) = <<render_highlights[1]>>
        /\ rendered.exc = ""
        /\ \E i \in 1..Len(rendered.value) : rendered.value[i] \in MarkOf(render_highlights[1])
        /\ Cardinality({ i \in 1..Len(rendered.value) : rendered.value[i].kind = "mark" }) = 1

(***************************************************************************)
(* The conditions of the semantic tier (SpecMatch).                        *)
(***************************************************************************)
\* the exact and the normalized tier both find nothing
FirstTwoTiersFail(p, t) ==
    /\ find_exact_phrase_positions(p, t) = <<>>
    /\ find_normalized_phrase_positions(p, t) = <<>>

\* C19: a phrase of fewer than three whitespace-separated words is never
\* matched semantically: when the exact and the normalized tier find
\* nothing the outcome is no match, whatever keywords and similarity are
ShortPhraseNeverSemantic ==
    (called /\ SplitCount(phrase) < MinSemanticWords) =>
        /\ match.exc = ""
        /\ match.match_type # "semantic"
        /\ FirstTwoTiersFail(phrase, text) => match = Returned(FALSE, "none", <<>>)

\* a phrase of two words got no match although its keyword is in the text
\* and the similarity reaches the threshold
ShortPhraseWithKeywordAndSimilarity ==
    /\ called /\ SplitCount(phrase) = 2
    /\ match = Returned(FALSE, "none", <<>>)
    /\ common_keywords(phrase, text) # {}
    /\ KeywordsSuffice(get_phrase_keywords(phrase), get_phrase_keywords(text))
    /\ partial_ratio(normalize_phrase(phrase), normalize_phrase(text)) >= DefaultThreshold

KeywordShareDecides ==
    /\ called /\ SplitCount(phrase) >= MinSemanticWords
    /\ FirstTwoTiersFail(phrase, text)
    /\ common_keywords(phrase, text) # {}
    /\ 10 * Cardinality(common_keywords(phrase, text))
          < 7 * Cardinality(get_phrase_keywords(phrase))
    /\ partial_ratio(normalize_phrase(phrase), normalize_phrase(text)) >= DefaultThreshold
    /\ match = Returned(FALSE, "none", <<>>)

(***************************************************************************)
(* What a computed result lists (SpecAnalyzer).                            *)
(***************************************************************************)
\* the indices of the highlights of result for phrase ph of dictionary d
HighlightsFor(result, d, ph) ==
    { i \in 1..Len(result.highlights) :
        /\ result.highlights[i].dictionary_id = d.id
        /\ result.highlights[i].phrase = ph }

\* result lists phrase ph of dictionary d as the matcher's outcome out says:
\* under d.id when found, with one highlight per position
ListedAsMatched(result, d, ph, out) ==
    /\ out.found <=> /\ d.id \in DOMAIN result.matched_phrases
                     /\ ph \in Range(result.matched_phrases[d.id])
    /\ Cardinality(HighlightsFor(result, d, ph)) =
          IF out.found THEN Len(out.positions) ELSE 0
    /\ \A i \in HighlightsFor(result, d, ph) :
          /\ result.highlights[i].dictionary_name = d.name
          /\ result.highlights[i].match_type = out.match_type
          /\ <<result.highlights[i].start_pos, result.highlights[i].end_pos>>
                \in Range(out.positions)

\* C21: a freshly computed result lists a phrase under its dictionary's id
\* exactly when the matcher found it for an applicable dictionary, with one
\* highlight per position the matcher returned that carries the
\* dictionary's id and name and the kind of the match
ComputedResultListsFoundPhrases ==
    (last_call.called /\ ~last_call.hit) =>
        \A k \in 1..Len(last_call.dictionaries) :
            AppliesTo(last_call.dictionaries[k], last_call.utterance.speaker) =>
                \A j \in 1..Len(last_call.dictionaries[k].phrases) :
                    /\ last_call.outcome.exc = ""
                    /\ ListedAsMatched(last_call.outcome, last_call.dictionaries[k],
                            last_call.dictionaries[k].phrases[j],
                            is_phrase_in_text(last_call.dictionaries[k].phrases[j],
                                              last_call.utterance.text, DefaultThreshold))

(***************************************************************************)
(* The exact tier applied to texts of up to MaxMixedTextTokens words, in   *)
(* which a phrase of two words can overlap itself.                         *)
(***************************************************************************)
InitExact ==
    /\ phrase \in MixedPhrases
    /\ text \in MixedTexts
    /\ called = FALSE
    /\ match = Returned(FALSE, "none", <<>>)
    /\ RenderIdle /\ AnalyzerIdle /\ WorkersIdle /\ PipelineIdle

\* what is_phrase_in_text makes of the positions of the exact tier
ExactOutcome(positions) ==
    IF positions # <<>> THEN Returned(TRUE, "exact", positions)
    ELSE Returned(FALSE, "none", <<>>)

FindExactPhrasePositions ==
    /\ ~called
    /\ called' = TRUE
    /\ match' = ExactOutcome(find_exact_phrase_positions(phrase, text))
    /\ UNCHANGED <<phrase, text, renderVars, pipelineVars, analyzerVars, workerVars>>

NextExact == FindExactPhrasePositions

SpecExact == InitExact /\ [][NextExact]_vars

\* the offsets at which phrase p occurs in text t, ignoring case
Occurrences(p, t) == { pos \in 0..Len(t) : MatchAt(p, t, pos) }

\* C22: the exact tier returns the span of every occurrence of the phrase
\* in the text, ignoring case, also of occurrences that overlap each other
ExactTierReturnsEveryOccurrence ==
    called =>
        /\ match.exc = ""
        /\ Range(match.positions) =
              { <<pos, pos + Len(phrase)>> : pos \in Occurrences(phrase, text) }
        /\ Len(match.positions) = Cardinality(Occurrences(phrase, text))

(***************************************************************************)
(* ConversationAnalyzer (src/classes/conversation_analyzer.py): the        *)
(* segments of the two channels are put together, sorted by start time     *)
(* and merged.  Times are whole numbers of seconds.                        *)
(***************************************************************************)
\* the largest time of a segment
MaxTime == 3
\* the largest number of segments of the two channels together
MaxSegments == 3
\* max_pause: float = 1.0
DefaultMaxPause == 1

\* the text of the k-th segment of a channel: k times the channel's letter
SegmentText(letter, k) == [i \in 1..k |-> letter]

\* the time spans of a segment, with end >= start
TimeSpans == { <<s, e>> \in (0..MaxTime) \X (0..MaxTime) : e >= s }

\* the lists of n segments a channel may give
SegmentLists(letter, n) ==
    { [k \in 1..n |-> [text |-> SegmentText(letter, k), start |-> spans[k][1], end |-> spans[k][2]]] : spans \in [1..n -> TimeSpans] }

\* Utterance(speaker=..., text=seg['text'], start_time=seg['start'], end_time=seg['end'])
TimedUtterance(speaker, seg) ==
    [speaker |-> speaker, text |-> seg.text, start_time |-> seg.start, end_time |-> seg.end]

\* the loops over client_segments and operator_segments
ChannelUtterances(speaker, segments) ==
    [k \in 1..Len(segments) |-> TimedUtterance(speaker, segments[k])]

\* u put into the sorted list behind every utterance that does not start later
InsertByStartTime(sorted, u) ==
    LET before == Cardinality({k \in 1..Len(sorted) : sorted[k].start_time <= u.start_time})
    IN  SubSeq(sorted, 1, before) \o <<u>> \o SubSeq(sorted, before + 1, Len(sorted))

RECURSIVE SortByStartTime(_, _)
\* utterances.sort(key=lambda x: x.start_time): a stable sort
SortByStartTime(utterances, sorted) ==
    IF utterances = <<>> THEN sorted
    ELSE SortByStartTime(Tail(utterances), InsertByStartTime(sorted, Head(utterances)))

\* the condition under which current is merged into last, with a pause that
\* must not be negative
ShouldMergeAfterEnd(last, current, max_pause) ==
    /\ current.speaker = last.speaker
    /\ current.start_time - last.end_time >= 0
    /\ current.start_time - last.end_time <= max_pause

\* the condition under which current is merged into last
ShouldMerge(last, current, max_pause) ==
    /\ current.speaker = last.speaker
    /\ current.start_time - last.end_time <= max_pause

\* the utterance that replaces last when current is merged into it
MergedUtterance(last, current) ==
    [speaker |-> last.speaker, text |-> last.text \o <<" ">> \o current.text,
     start_time |-> last.start_time, end_time |-> current.end_time]

\* one pass of the loop of merge_adjacent_utterances
MergeStep(merged, current, max_pause) ==
    IF ShouldMerge(merged[Len(merged)], current, max_pause)
    THEN [merged EXCEPT ![Len(merged)] = MergedUtterance(merged[Len(merged)], current)]
    ELSE Append(merged, current)

RECURSIVE MergeFrom(_, _, _, _)
\* the loop over utterances[1:], from index k (1-based) on
MergeFrom(utterances, k, merged, max_pause) ==
    IF k > Len(utterances) THEN merged
    ELSE MergeFrom(utterances, k + 1, MergeStep(merged, utterances[k], max_pause), max_pause)

\* merge_adjacent_utterances
merge_adjacent_utterances(utterances, max_pause) ==
    IF utterances = <<>> THEN <<>>
    ELSE MergeFrom(utterances, 2, <<utterances[1]>>, max_pause)

RECURSIVE MaxEndTime(_, _)
\* max(u.end_time for u in utterances), for the first n utterances
MaxEndTime(utterances, n) ==
    IF n = 1 THEN utterances[1].end_time
    ELSE Max(utterances[n].end_time, MaxEndTime(utterances, n - 1))

\* the ConversationAnalysis of the merged utterances
ConversationAnalysis(utterances) ==
    [done |-> TRUE, utterances |-> utterances,
     duration |-> IF utterances = <<>> THEN 0 ELSE MaxEndTime(utterances, Len(utterances))]

\* the utterances of both channels, the client's first, sorted by start time
SortedUtterances(client, operator) ==
    SortByStartTime(ChannelUtterances("client", client) \o ChannelUtterances("operator", operator), <<>>)

\* analyze_conversation
analyze_conversation(client, operator) ==
    ConversationAnalysis(merge_adjacent_utterances(SortedUtterances(client, operator), DefaultMaxPause))

InitConversation ==
    /\ \E n \in 0..MaxSegments, m \in 0..MaxSegments :
          /\ n + m <= MaxSegments
          /\ client_segments \in SegmentLists("a", n)
          /\ operator_segments \in SegmentLists("s", m)
    /\ conversation = [done |-> FALSE, utterances |-> <<>>, duration |-> 0]
    /\ MatchIdle /\ RenderIdle /\ AnalyzerIdle /\ WorkersIdle /\ ThreadsIdle

AnalyzeConversation ==
    /\ ~conversation.done
    /\ conversation' = analyze_conversation(client_segments, operator_segments)
    /\ UNCHANGED <<client_segments, operator_segments, matchVars, renderVars, analyzerVars, workerVars,
                   dbVars, recognizeVars, processorVars>>

NextConversation == AnalyzeConversation

SpecConversation == InitConversation /\ [][NextConversation]_vars

(***************************************************************************)
(* The keys of analyze_conversation_batch (SpecConversation).              *)
(***************************************************************************)
Digit(d) == <<"0", "1", "2", "3", "4", "5", "6", "7", "8", "9">>[d + 1]

RECURSIVE Decimal(_)
Decimal(n) == IF n < 10 THEN <<Digit(n)>> ELSE Decimal(n \div 10) \o <<Digit(n % 10)>>

\* str() of the float of a whole number of seconds, as in "3.0"
FloatStr(n) == Decimal(n) \o <<".", "0">>

SpeakerStr(speaker) ==
    IF speaker = "client" THEN <<"c", "l", "i", "e", "n", "t">>
    ELSE <<"o", "p", "e", "r", "a", "t", "o", "r">>

\* f"{utterance.speaker}_{utterance.start_time}"
utterance_key(u) == SpeakerStr(u.speaker) \o <<"_">> \o FloatStr(u.start_time)

\* the keys of the map analyze_conversation_batch fills for a conversation
BatchKeys(utterances) == { utterance_key(utterances[k]) : k \in 1..Len(utterances) }

\* C23: no two utterances of a conversation analyze_conversation produced
\* have the same speaker and start time, so the keys
\* analyze_conversation_batch builds for them are as many as the utterances
UtteranceKeysUnique ==
    conversation.done =>
        /\ \A i, j \in 1..Len(conversation.utterances) :
              i # j =>
                 \/ conversation.utterances[i].speaker # conversation.utterances[j].speaker
                 \/ conversation.utterances[i].start_time # conversation.utterances[j].start_time
        /\ Cardinality(BatchKeys(conversation.utterances)) = Len(conversation.utterances)

\* two segments of the client begin at the same time, the second one ends
\* before the first, and the conversation has more than one utterance
SameStartSegmentsAnalysed ==
    /\ conversation.done
    /\ Len(client_segments) >= 2
    /\ client_segments[1].start = client_segments[2].start
    /\ client_segments[2].end < client_segments[1].end
    /\ Len(conversation.utterances) >= 2

(***************************************************************************)
(* What merge_adjacent_utterances merges (SpecConversation).               *)
(***************************************************************************)
RECURSIVE JoinTexts(_)
\* the texts of a list of utterances, joined by one space
JoinTexts(us) ==
    IF Len(us) = 1 THEN us[1].text
    ELSE us[1].text \o <<" ">> \o JoinTexts(Tail(us))

\* the pause between two utterances: the start of the second minus the end
\* of the first
Pause(first, second) == second.start_time - first.end_time

\* m is what a run of neighbouring utterances becomes: a run of one is kept
\* unchanged; a longer run is of one speaker with every pause below
\* max_pause, and m holds the texts joined in order
MergedFrom(m, run, max_pause) ==
    /\ \A j \in 2..Len(run) :
          /\ run[j].speaker = run[1].speaker
          /\ Pause(run[j - 1], run[j]) < max_pause
    /\ IF Len(run) = 1 THEN m = run[1]
       ELSE /\ m.speaker = run[1].speaker
            /\ m.text = JoinTexts(run)

\* merged is what the utterances become, cut into the runs that begin at
\* firsts: a run ends where the speaker changes or the pause is not below
\* max_pause
MergedInRuns(merged, utterances, firsts, max_pause) ==
    /\ Len(merged) = Len(firsts)
    /\ \A k \in 1..Len(firsts) :
          MergedFrom(merged[k], RunOf(utterances, firsts, k), max_pause)
    /\ \A k \in 2..Len(firsts) :
          \/ utterances[firsts[k]].speaker # utterances[firsts[k] - 1].speaker
          \/ Pause(utterances[firsts[k] - 1], utterances[firsts[k]]) >= max_pause

\* C28: merge_adjacent_utterances merges neighbouring utterances of one
\* speaker when the pause between them is less than max_pause; the merged
\* text is the parts' texts joined by one space in input order, and
\* utterances of different speakers or after a longer pause stay as they
\* are, in order; no two neighbours of the output have one speaker and a
\* pause below max_pause
MergesOnlyBelowMaxPause ==
    conversation.done =>
        /\ IF client_segments \o operator_segments = <<>>
           THEN conversation.utterances = <<>>
           ELSE \E rest \in SUBSET (2..(Len(client_segments) + Len(operator_segments))) :
                   MergedInRuns(conversation.utterances,
                                SortedUtterances(client_segments, operator_segments),
                                Ascending({1} \cup rest), DefaultMaxPause)
        /\ \A k \in 2..Len(conversation.utterances) :
              \/ conversation.utterances[k].speaker # conversation.utterances[k - 1].speaker
              \/ Pause(conversation.utterances[k - 1], conversation.utterances[k])
                    >= DefaultMaxPause

(***************************************************************************)
(* The duration of a conversation (SpecConversation).                      *)
(***************************************************************************)
\* the end times of the segments of both channels
SegmentEnds(client, operator) ==
    { client[k].end : k \in 1..Len(client) } \cup { operator[k].end : k \in 1..Len(operator) }

\* C29: the duration analyze_conversation returns is the largest end time
\* of the segments of both channels, and 0 when there is no segment
DurationIsLargestEnd ==
    conversation.done =>
        /\ conversation.duration \in SegmentEnds(client_segments, operator_segments) \cup {0}
        /\ \A e \in SegmentEnds(client_segments, operator_segments) : e <= conversation.duration
        /\ client_segments \o operator_segments = <<>> => conversation.duration = 0

(***************************************************************************)
(* The characters the rendering wraps (SpecRender).                        *)
(***************************************************************************)
\* the number of items of the given kind among the first n of a rendering
CountKind(value, kind, n) == Cardinality({ i \in 1..n : value[i].kind = kind })

\* the number of <mark> tags open at item i of a rendering
OpenMarks(value, i) == CountKind(value, "mark", i) - CountKind(value, "/mark", i)

\* the positions, in the text a rendering holds, of the characters that
\* stand inside at least n <mark> tags
WrappedPositions(value, n) ==
    { CountKind(value, "char", i) - 1 :
        i \in { j \in 1..Len(value) : value[j].kind = "char" /\ OpenMarks(value, j) >= n } }

\* the positions the highlights cover
CoveredPositions(highlights) ==
    UNION { highlights[k].start_pos..(highlights[k].end_pos - 1) : k \in 1..Len(highlights) }

\* every highlight has 0 <= start_pos < end_pos <= len(text)
ValidHighlights(t, highlights) ==
    \A k \in 1..Len(highlights) :
        /\ 0 <= highlights[k].start_pos
        /\ highlights[k].start_pos < highlights[k].end_pos
        /\ highlights[k].end_pos <= Len(t)

\* C30: for highlights with 0 <= start_pos < end_pos <= len(text), the
\* characters add_highlights_to_text wraps in <mark> tags are those the
\* highlights cover, and none is wrapped in more than one tag
WrappedIsCovered ==
    (render_done /\ ValidHighlights(render_text, render_highlights)) =>
        /\ rendered.exc = ""
        /\ WrappedPositions(rendered.value, 1) = CoveredPositions(render_highlights)
        /\ WrappedPositions(rendered.value, 2) = {}

(***************************************************************************)
(* RecognizeThread (src/threads/recognize_record_thread.py): the watcher   *)
(* puts the recordings to recognize on a queue, and the threads of the     *)
(* executor run _process_task on them.  A session reads the committed row  *)
(* at session.get and writes it at session.commit; the source takes no     *)
(* lock on the row in between.                                             *)
(***************************************************************************)
\* the recordings of the database
NumRecordings == 2
Recordings == 1..NumRecordings
\* the watcher waits while the queue holds MaxQueue tasks
MaxQueue == 3

\* a member of the Enum RecordingTaskStatus, and an int
Member(name, value) == [type |-> "RecordingTaskStatus", name |-> name, value |-> value]
IntValue(n) == [type |-> "int", name |-> "", value |-> n]
RecordingTaskStatus ==
    [NEW |-> Member("NEW", 0), PENDING |-> Member("PENDING", 1),
     FINISHED |-> Member("FINISHED", 2), FAILED |-> Member("FAILED", 3)]

\* session.get(RecordingEntity, id): the committed row
session_get(id) ==
    [recognize_status |-> recognize_status[id], analysis_status |-> analysis_status[id],
     conversation |-> has_conversation[id]]

\* the first n elements of a list
Limit(seq, n) == SubSeq(seq, 1, Min(Len(seq), n))

\* the query of _fetch_new_tasks: the recordings with recognize_status NEW
\* that are not among the ids given, oldest first, at most max_workers * 2
NewTasks(ids) ==
    Limit(Ascending({ r \in Recordings :
                        /\ recognize_status[r] = RecordingTaskStatus.NEW.value
                        /\ r \notin ids }),
          RecognizeWorkers * 2)

InitRecognize ==
    /\ recognize_status = [r \in Recordings |-> RecordingTaskStatus.NEW.value]
    /\ analysis_status = [r \in Recordings |-> RecordingTaskStatus.NEW.value]
    /\ has_conversation = [r \in Recordings |-> FALSE]
    /\ RecognizeIdle /\ ProcessorIdle /\ ConversationIdle
    /\ MatchIdle /\ RenderIdle /\ AnalyzerIdle /\ WorkersIdle

\* what no action of RecognizeThread changes
OutsideRecognize == <<matchVars, renderVars, analyzerVars, workerVars, convVars, processorVars>>

\* _fetch_new_tasks, lines 46-47: the watcher reads the keys of current_tasks
ReadCurrentTasks ==
    /\ wpc = "sleep"
    /\ current_task_ids' = current_tasks
    /\ wpc' = "query"
    /\ UNCHANGED <<task_queue, current_tasks, rpc, rtask, db_record, dbVars, OutsideRecognize>>

\* _fetch_new_tasks, lines 50-61: the query, and every task found put on
\* the queue; then the watcher sleeps
FetchNewTasks ==
    /\ wpc = "query"
    /\ Len(task_queue) + Len(NewTasks(current_task_ids)) <= MaxQueue
    /\ task_queue' = task_queue \o NewTasks(current_task_ids)
    /\ wpc' = "sleep"
    /\ UNCHANGED <<current_tasks, current_task_ids, rpc, rtask, db_record, dbVars, OutsideRecognize>>

\* _worker_loop takes a task from the queue and submits it, and the idle
\* thread w of the executor begins _process_task on it
Submit(w) ==
    /\ rpc[w] = "idle"
    /\ task_queue # <<>>
    /\ rtask' = [rtask EXCEPT ![w] = Head(task_queue)]
    /\ task_queue' = Tail(task_queue)
    /\ rpc' = [rpc EXCEPT ![w] = "register"]
    /\ UNCHANGED <<current_tasks, current_task_ids, wpc, db_record, dbVars, OutsideRecognize>>

\* _process_task, lines 73-74
Register(w) ==
    /\ rpc[w] = "register"
    /\ current_tasks' = current_tasks \cup {rtask[w]}
    /\ rpc' = [rpc EXCEPT ![w] = "get"]
    /\ UNCHANGED <<task_queue, current_task_ids, wpc, rtask, db_record, dbVars, OutsideRecognize>>

\* _process_task, line 78
GetRecord(w) ==
    /\ rpc[w] = "get"
    /\ db_record' = [db_record EXCEPT ![w] = session_get(rtask[w]).recognize_status]
    /\ rpc' = [rpc EXCEPT ![w] = "check"]
    /\ UNCHANGED <<task_queue, current_tasks, current_task_ids, wpc, rtask, dbVars, OutsideRecognize>>

\* _process_task, lines 83-85: the row read is not NEW, and the task is skipped
Skip(w) ==
    /\ rpc[w] = "check"
    /\ db_record[w] # RecordingTaskStatus.NEW.value
    /\ rpc' = [rpc EXCEPT ![w] = "finally"]
    /\ UNCHANGED <<task_queue, current_tasks, current_task_ids, wpc, rtask, db_record, dbVars, OutsideRecognize>>

\* _process_task, lines 83-90: the row read is NEW, and PENDING is committed
SetPending(w) ==
    /\ rpc[w] = "check"
    /\ db_record[w] = RecordingTaskStatus.NEW.value
    /\ recognize_status' = [recognize_status EXCEPT ![rtask[w]] = RecordingTaskStatus.PENDING.value]
    /\ rpc' = [rpc EXCEPT ![w] = "analyze"]
    /\ UNCHANGED <<task_queue, current_tasks, current_task_ids, wpc, rtask, db_record,
                   analysis_status, has_conversation, OutsideRecognize>>

\* _process_task, lines 95-96: analyzer.analyze(task.path) returns
Transcribe(w) ==
    /\ rpc[w] = "analyze"
    /\ rpc' = [rpc EXCEPT ![w] = "finish"]
    /\ UNCHANGED <<task_queue, current_tasks, current_task_ids, wpc, rtask, db_record, dbVars, OutsideRecognize>>

\* _process_task, lines 95-96 and 113-114: analyzer.analyze(task.path) raises
TranscribeRaises(w) ==
    /\ rpc[w] = "analyze"
    /\ rpc' = [rpc EXCEPT ![w] = "failed"]
    /\ UNCHANGED <<task_queue, current_tasks, current_task_ids, wpc, rtask, db_record, dbVars, OutsideRecognize>>

\* _process_task, lines 98-108: the conversation (with utterances or
\* without) and FINISHED are committed, and analysis_status NEW
Finish(w) ==
    /\ rpc[w] = "finish"
    /\ recognize_status' = [recognize_status EXCEPT ![rtask[w]] = RecordingTaskStatus.FINISHED.value]
    /\ analysis_status' = [analysis_status EXCEPT ![rtask[w]] = RecordingTaskStatus.NEW.value]
    /\ \E utterances \in BOOLEAN :
          has_conversation' = [has_conversation EXCEPT ![rtask[w]] = utterances]
    /\ rpc' = [rpc EXCEPT ![w] = "finally"]
    /\ UNCHANGED <<task_queue, current_tasks, current_task_ids, wpc, rtask, db_record, OutsideRecognize>>

\* _mark_task_as_failed
MarkTaskAsFailed(w) ==
    /\ rpc[w] = "failed"
    /\ recognize_status' = [recognize_status EXCEPT ![rtask[w]] = RecordingTaskStatus.FAILED.value]
    /\ rpc' = [rpc EXCEPT ![w] = "finally"]
    /\ UNCHANGED <<task_queue, current_tasks, current_task_ids, wpc, rtask, db_record,
                   analysis_status, has_conversation, OutsideRecognize>>

\* _process_task, lines 116-120
Finally(w) ==
    /\ rpc[w] = "finally"
    /\ current_tasks' = current_tasks \ {rtask[w]}
    /\ rpc' = [rpc EXCEPT ![w] = "idle"]
    /\ UNCHANGED <<task_queue, current_task_ids, wpc, rtask, db_record, dbVars, OutsideRecognize>>

ThreadSubmits == \E w \in RecognitionThreads : Submit(w)
ThreadRegisters == \E w \in RecognitionThreads : Register(w)
ThreadGetsRecord == \E w \in RecognitionThreads : GetRecord(w)
ThreadSkips == \E w \in RecognitionThreads : Skip(w)
ThreadSetsPending == \E w \in RecognitionThreads : SetPending(w)
ThreadTranscribes == \E w \in RecognitionThreads : Transcribe(w)
ThreadTranscribeRaises == \E w \in RecognitionThreads : TranscribeRaises(w)
ThreadFinishes == \E w \in RecognitionThreads : Finish(w)
ThreadMarksFailed == \E w \in RecognitionThreads : MarkTaskAsFailed(w)
ThreadLeaves == \E w \in RecognitionThreads : Finally(w)

NextRecognize ==
    \/ ReadCurrentTasks
    \/ FetchNewTasks
    \/ ThreadSubmits
    \/ ThreadRegisters
    \/ ThreadGetsRecord
    \/ ThreadSkips
    \/ ThreadSetsPending
    \/ ThreadTranscribes
    \/ ThreadTranscribeRaises
    \/ ThreadFinishes
    \/ ThreadMarksFailed
    \/ ThreadLeaves

SpecRecognize == InitRecognize /\ [][NextRecognize]_vars

\* the thread is between committing PENDING and committing FINISHED or FAILED
Recognizing(w) == rpc[w] \in {"analyze", "finish", "failed"}

\* C24: at most one thread of the executor runs recognition for a recording
\* at a time: of the _process_task calls for one id, one sets PENDING and
\* every other one skips
OneRecognitionPerRecording ==
    \A v, w \in RecognitionThreads :
        (v # w /\ Recognizing(v) /\ Recognizing(w)) => rtask[v] # rtask[w]

\* C25: while a thread is between setting a recording PENDING and writing
\* FINISHED or FAILED, the recording's id is a key of current_tasks
RecognizingIsCurrentTask ==
    \A w \in RecognitionThreads : Recognizing(w) => rtask[w] \in current_tasks

\* ---------------------------------------------------------------------
\* TaskProcessor (threads/analyze_text_thread.py)
\* ---------------------------------------------------------------------

\* the statuses a row of the recordings table can hold
StatusValues ==
    {RecordingTaskStatus.NEW.value, RecordingTaskStatus.PENDING.value,
     RecordingTaskStatus.FINISHED.value, RecordingTaskStatus.FAILED.value}

InitProcessor ==
    /\ recognize_status = [r \in Recordings |-> RecordingTaskStatus.FINISHED.value]
    /\ analysis_status \in [Recordings -> StatusValues]
    /\ has_conversation \in [Recordings -> BOOLEAN]
    /\ RecognizeIdle /\ ProcessorIdle /\ ConversationIdle
    /\ MatchIdle /\ RenderIdle /\ AnalyzerIdle /\ WorkersIdle

\* what no action of TaskProcessor changes
OutsideProcessor == <<matchVars, renderVars, analyzerVars, workerVars, convVars, recognizeVars>>

\* add_task
AddTask(recording_id) ==
    /\ Len(proc_queue) < MaxQueue
    /\ proc_queue' = Append(proc_queue, recording_id)
    /\ UNCHANGED <<proc_call, dbVars, OutsideProcessor>>

\* line 57: the int of the column compared with a member of the Enum
SkipsRecording(recording) ==
    IntValue(recording.analysis_status) # RecordingTaskStatus.NEW

\* the analysis_status that _process_task leaves in the row: the row as it
\* was when line 57 returns, else PENDING (line 62) and then FAILED (line
\* 127) when the recording has a conversation, as self.analyzer has no
\* method analyze_conversation (line 90), and FINISHED (line 118) when it
\* has none
StatusAfterProcess(recording) ==
    IF SkipsRecording(recording)
    THEN recording.analysis_status
    ELSE IF recording.conversation
         THEN RecordingTaskStatus.FAILED.value
         ELSE RecordingTaskStatus.FINISHED.value

\* _worker: a thread takes the first task of the queue and runs
\* _process_task on it
ProcessTask ==
    /\ proc_queue # <<>>
    /\ proc_queue' = Tail(proc_queue)
    /\ proc_call' = [called |-> TRUE, recording_id |-> Head(proc_queue),
                     before |-> analysis_status[Head(proc_queue)],
                     had_conversation |-> has_conversation[Head(proc_queue)]]
    /\ analysis_status' = [analysis_status EXCEPT
                             ![Head(proc_queue)] = StatusAfterProcess(session_get(Head(proc_queue)))]
    /\ UNCHANGED <<recognize_status, has_conversation, OutsideProcessor>>

TaskAdded == \E recording_id \in Recordings : AddTask(recording_id)

NextProcessor ==
    \/ TaskAdded
    \/ ProcessTask

SpecProcessor == InitProcessor /\ [][NextProcessor]_vars

\* C26: when _process_task has returned, a recording that was NEW is
\* FINISHED or FAILED, never NEW or PENDING, and a recording that was not
\* NEW has the status it had
ProcessTaskSettlesNewRecording ==
    proc_call.called =>
        IF proc_call.before = RecordingTaskStatus.NEW.value
        THEN analysis_status[proc_call.recording_id] \in
                 {RecordingTaskStatus.FINISHED.value, RecordingTaskStatus.FAILED.value}
        ELSE analysis_status[proc_call.recording_id] = proc_call.before

====
